---- MODULE Spec2Model ----
(***************************************************************************)
(* Report ingestion-and-normalization pipeline of fin_report_extractor:    *)
(*   - the normalizer ReportDataProcessor._build_metrics_from_extraction   *)
(*     (src/src/infra/llm_based_processor.py),                             *)
(*   - the background run upload_report.process_in_background and the      *)
(*     retrieval endpoint get_processed_report (src/src/app/api/reports.py)*)
(*   - the repository SqlAlchemyProcessedReportRepository                  *)
(*     (src/src/infra/sqlalchemy_repository.py).                           *)
(*                                                                         *)
(* Python values are represented as follows.                               *)
(*   Optional[T]     None is <<>>, a present value v is <<v>> for strings  *)
(*                   (so that the empty string <<"">> differs from None)   *)
(*                   and the record itself for objects                     *)
(*   dict            a function; its key set is its DOMAIN                 *)
(*   UUID            a natural number; str(uuid) is ToString of it         *)
(*   datetime        a natural number (an instant)                         *)
(* The rows of processed_report_metrics are kept per report_id, and their  *)
(* autoincrement ids are numbered per report: rows are only ever selected  *)
(* by report_id, and only the distinctness of their ids is used.           *)
(***************************************************************************)
EXTENDS Integers, Sequences, FiniteSets, TLC

VARIABLES
    \* ---- normalizer harness (specification SpecNorm)
    nConfig,        \* self.metrics_config of the processor: the schema's metric names
    nExtraction,    \* extraction.metrics: the list of ExtractedMetric
    nProcessed,     \* what _build_metrics_from_extraction returned
    nPc,            \* "input" before the call, "done" after it
    \* ---- builder harness (specification SpecBuilder)
    bArg,           \* the metrics_config argument ReportDataBuilder is constructed with
    bBuilder,       \* the builder after __init__: its metrics_config; None before
    bProcessors,    \* the processors the factory has built, each with the schema it was given
    bCalls,         \* the calls of process on the builder: the processor used, what its
                    \* process produced, what the builder's process returned
    \* ---- the database behind SqlAlchemyProcessedReportRepository
    processed_reports,          \* table processed_reports: id -> [processed_at, error]
    processed_report_metrics,   \* table processed_report_metrics: report_id -> its rows, in id order
    nextMetricId,               \* report_id -> the id its next metric row gets
    \* ---- repository harness (specification SpecRepo)
    savedPrev,      \* the argument of the save before the latest one, or None
    savedLast,      \* the argument of the latest save, or None
    saveCount,      \* number of saves so far
    \* ---- concurrent calls of the repository (specification SpecConc)
    sessions,       \* caller -> the state of its save or get call and of its session
    \* ---- the application (specifications Spec and FairSpec)
    config,         \* the container's configuration, fixed at start
    runs,           \* report id -> the state of its process_in_background task
    nextUuid,       \* the value the next uuid7() of upload_report returns
    tempFiles,      \* report ids whose uploaded temp file exists on disk
    lastResponse,   \* the latest GET /reports/{report_id}: the id asked, the status answered
    lastUpload      \* the latest POST /reports: the status answered, and the report id if any

nvars == <<nConfig, nExtraction, nProcessed, nPc>>

bvars == <<bArg, bBuilder, bProcessors, bCalls>>

dbvars == <<processed_reports, processed_report_metrics, nextMetricId>>

rvars == <<savedPrev, savedLast, saveCount, sessions>>

avars == <<config, runs, nextUuid, tempFiles, lastResponse, lastUpload>>

vars == <<nvars, bvars, dbvars, rvars, avars>>

-----------------------------------------------------------------------------
(* Bounds *)

\* longest list of proposals an extraction holds in SpecNorm
MaxProposals == 2

\* number of save calls in SpecRepo
MaxSaves == 2

\* number of accepted uploads in Spec
MaxUploads == 2

\* number of processors one builder builds in SpecBuilder
MaxBuilds == 2

-----------------------------------------------------------------------------
(* Values *)

None == <<>>

Some(s) == <<s>>

\* Optional[str] values of a metric: absent, the empty string, a number text
OptStr == {None, Some(""), Some("100")}

\* metric names a schema is drawn from
SchemaNames == {"cash", "debt"}

\* names the extractor may propose: free text, not necessarily a schema key
ProposalNames == SchemaNames \cup {"unused"}

\* models.py MetricValues: current and previous default to None
MetricValues(current, previous) == [current |-> current, previous |-> previous]

\* llm_based_processor.py ExtractedMetric
ExtractedMetric == [name : ProposalNames, current : OptStr, previous : OptStr]

\* all lists over S of length at most n
SeqUpTo(S, n) == UNION {[1..k -> S] : k \in 0..n}

-----------------------------------------------------------------------------
(* Normalizer: ReportDataProcessor._build_metrics_from_extraction *)

\* BuildLoop without the membership test of lines 110-111: an unknown name is
\* stored like a known one
RECURSIVE BuildLoopNoFilter(_, _)
BuildLoopNoFilter(processed, metrics) ==
    IF metrics = <<>>
    THEN processed
    ELSE LET metric == Head(metrics)
         IN  BuildLoopNoFilter(
                [n \in DOMAIN processed \cup {metric.name} |->
                    IF n = metric.name
                    THEN MetricValues(metric.current, metric.previous)
                    ELSE processed[n]],
                Tail(metrics))

BuildMetricsNoFilter(metrics_config, metrics) ==
    BuildLoopNoFilter([metric_name \in metrics_config |-> MetricValues(None, None)], metrics)

\* BuildLoop merging duplicates field by field: a field the later proposal
\* leaves absent keeps the value of an earlier proposal
RECURSIVE BuildLoopMerge(_, _)
BuildLoopMerge(processed, metrics) ==
    IF metrics = <<>>
    THEN processed
    ELSE LET metric == Head(metrics)
             name   == metric.name
         IN  IF name \notin DOMAIN processed
             THEN BuildLoopMerge(processed, Tail(metrics))
             ELSE BuildLoopMerge(
                    [processed EXCEPT
                        ![name] = MetricValues(
                            IF metric.current = None THEN @.current ELSE metric.current,
                            IF metric.previous = None THEN @.previous ELSE metric.previous)],
                    Tail(metrics))

BuildMetricsMerge(metrics_config, metrics) ==
    BuildLoopMerge([metric_name \in metrics_config |-> MetricValues(None, None)], metrics)

\* the loop of lines 108-114: for metric in extraction.metrics
RECURSIVE BuildLoop(_, _)
BuildLoop(processed, metrics) ==
    IF metrics = <<>>
    THEN processed
    ELSE LET metric == Head(metrics)
             name   == metric.name
         IN  IF name \notin DOMAIN processed
             THEN BuildLoop(processed, Tail(metrics))                 \* continue
             ELSE BuildLoop(
                    [processed EXCEPT
                        ![name] = MetricValues(metric.current, metric.previous)],
                    Tail(metrics))

\* lines 104-116: every configured name starts as MetricValues(), then the loop
BuildMetricsFromExtraction(metrics_config, metrics) ==
    BuildLoop([metric_name \in metrics_config |-> MetricValues(None, None)], metrics)

-----------------------------------------------------------------------------
(* Repository: SqlAlchemyProcessedReportRepository over the two tables *)

\* models.py ProcessedData
ProcessedData(report_id, data, processed_at, error) ==
    [report_id |-> report_id, data |-> data,
     processed_at |-> processed_at, error |-> error]

\* the empty dict
EmptyDict == <<>>

\* every UUID the model uses: an upload draws one, its processor another.
\* uuid7() returns a value it never returned before; the values are numbered so
\* that upload_report draws the odd numbers in turn and the processor working
\* for report r draws r + 1.
Uuids == 1..(2 * MaxUploads)

\* the values upload_report can draw as report ids
ReportIds == {u \in Uuids : u % 2 = 1}

\* str(report_id), the primary key of processed_reports
UuidStr(report_id) == ToString(report_id)

\* UUID(record.id)
ParseUuid(text) == CHOOSE u \in Uuids : ToString(u) = text

\* the order in which a dict of metrics is iterated
NameOrder ==
    <<"cash", "debt", "unused", "non_current_assets", "current_assets",
      "prepaid_expenses", "deferred_tax_assets">>

\* data.items(): the keys of a dict, in iteration order
DictKeys(data) ==
    LET InDict(n) == n \in DOMAIN data
    IN  SelectSeq(NameOrder, InDict)

\* the database as one value
Db == [reports |-> processed_reports,
       metrics |-> processed_report_metrics,
       nextId  |-> nextMetricId]

EmptyDb == [reports |-> <<>>, metrics |-> <<>>, nextId |-> <<>>]

\* the metric rows of one report, in id order (relationship ReportRecord.metrics)
MetricsOf(db, key) ==
    IF key \in DOMAIN db.metrics THEN db.metrics[key] ELSE <<>>

\* the id the next metric row of a report gets (db_models.py line 33)
NextIdOf(db, key) ==
    IF key \in DOMAIN db.nextId THEN db.nextId[key] ELSE 1

\* the first query of session.get (save, lines 25-29) and of session.execute
\* (get, lines 54-58): SELECT from processed_reports by primary key; the row,
\* or None
SelectReport(db, key) ==
    IF key \in DOMAIN db.reports THEN db.reports[key] ELSE None

\* the second query of both, emitted by selectinload(ReportRecord.metrics):
\* SELECT from processed_report_metrics by report_id
SelectMetrics(db, key) == MetricsOf(db, key)

\* what the session of save holds of a record: whether the first query found
\* it, the processed_at and error it loaded, the ids of the rows the second
\* query loaded
Loaded(record, rows) ==
    IF record = None
    THEN [found |-> FALSE, processed_at |-> None, error |-> None, loaded |-> {}]
    ELSE [found |-> TRUE, processed_at |-> record.processed_at,
          error |-> record.error,
          loaded |-> {rows[i].id : i \in 1..Len(rows)}]

\* save, lines 25-29: session.get(ReportRecord, id, selectinload(metrics)),
\* both queries on one state of the database
SessionGet(db, key) ==
    Loaded(SelectReport(db, key), SelectMetrics(db, key))

\* NewMetricRows testing the truth of error instead of "is None": the rows are
\* written also for an error that is the empty string
NewMetricRowsUnlessTruthyError(processed_report, key, firstId) ==
    IF processed_report.error = None \/ processed_report.error = Some("")
    THEN LET names == DictKeys(processed_report.data)
         IN  [i \in 1..Len(names) |->
                [id             |-> firstId + i - 1,
                 report_id      |-> key,
                 name           |-> names[i],
                 current_value  |-> processed_report.data[names[i]].current,
                 previous_value |-> processed_report.data[names[i]].previous]]
    ELSE <<>>

\* save, lines 42-50: the rows appended to record.metrics
NewMetricRows(processed_report, key, firstId) ==
    IF processed_report.error = None
    THEN LET names == DictKeys(processed_report.data)
         IN  [i \in 1..Len(names) |->
                [id             |-> firstId + i - 1,
                 report_id      |-> key,
                 name           |-> names[i],
                 current_value  |-> processed_report.data[names[i]].current,
                 previous_value |-> processed_report.data[names[i]].previous]]
    ELSE <<>>

\* Flush without record.metrics.clear(): the rows the session loaded stay
FlushKeepsLoadedRows(db, session, processed_report) ==
    LET key     == UuidStr(processed_report.report_id)
        added   == NewMetricRows(processed_report, key, NextIdOf(db, key))
    IN  [reports |->
            [k \in DOMAIN db.reports \cup {key} |->
                IF k = key
                THEN [processed_at |-> processed_report.processed_at,
                      error        |-> processed_report.error]
                ELSE db.reports[k]],
         metrics |->
            [k \in DOMAIN db.metrics \cup {key} |->
                IF k = key
                THEN MetricsOf(db, key) \o added
                ELSE db.metrics[k]],
         nextId  |->
            [k \in DOMAIN db.nextId \cup {key} |->
                IF k = key
                THEN NextIdOf(db, key) + Len(added)
                ELSE db.nextId[k]]]

\* Flush deleting every row of processed_report_metrics, not only the rows of
\* the record it loaded
FlushTruncatesMetrics(db, session, processed_report) ==
    LET key     == UuidStr(processed_report.report_id)
        added   == NewMetricRows(processed_report, key, NextIdOf(db, key))
    IN  [reports |->
            [k \in DOMAIN db.reports \cup {key} |->
                IF k = key
                THEN [processed_at |-> processed_report.processed_at,
                      error        |-> processed_report.error]
                ELSE db.reports[k]],
         metrics |->
            [k \in DOMAIN db.metrics \cup {key} |->
                IF k = key THEN added ELSE <<>>],
         nextId  |->
            [k \in DOMAIN db.nextId \cup {key} |->
                IF k = key
                THEN NextIdOf(db, key) + Len(added)
                ELSE db.nextId[k]]]

\* save, the commit of session.begin() (line 24): the flush writes the report
\* row, deletes the rows the session loaded and cleared (delete-orphan, each
\* DELETE by the row's id) and inserts the appended rows; all of it becomes
\* visible at the commit. The report row is INSERTed when the session did not
\* find it; else it is UPDATEd, and the UPDATE sets only the columns whose
\* new value differs from the value the session loaded.
Flush(db, session, processed_report) ==
    LET key     == UuidStr(processed_report.report_id)
        Kept(row) == row.id \notin session.loaded
        added   == NewMetricRows(processed_report, key, NextIdOf(db, key))
        stored  == SelectReport(db, key)
    IN  [reports |->
            [k \in DOMAIN db.reports \cup {key} |->
                IF k # key
                THEN db.reports[k]
                ELSE IF session.found /\ stored # None
                THEN [processed_at |->
                        IF processed_report.processed_at = session.processed_at
                        THEN stored.processed_at
                        ELSE processed_report.processed_at,
                      error |->
                        IF processed_report.error = session.error
                        THEN stored.error
                        ELSE processed_report.error]
                ELSE [processed_at |-> processed_report.processed_at,
                      error        |-> processed_report.error]],
         metrics |->
            [k \in DOMAIN db.metrics \cup {key} |->
                IF k = key
                THEN SelectSeq(MetricsOf(db, key), Kept) \o added
                ELSE db.metrics[k]],
         nextId  |->
            [k \in DOMAIN db.nextId \cup {key} |->
                IF k = key
                THEN NextIdOf(db, key) + Len(added)
                ELSE db.nextId[k]]]

\* the INSERT of a report row whose primary key exists by now is refused
FlushRefused(db, session, processed_report) ==
    /\ ~session.found
    /\ UuidStr(processed_report.report_id) \in DOMAIN db.reports

\* RowsToDict over a column that stores the empty string as NULL: a value read
\* back as "" becomes None
RECURSIVE RowsToDictEmptyAsNone(_, _)
RowsToDictEmptyAsNone(metrics, rows) ==
    IF rows = <<>>
    THEN metrics
    ELSE LET metric == Head(rows)
             Read(value) == IF value = Some("") THEN None ELSE value
         IN  RowsToDictEmptyAsNone(
                [n \in DOMAIN metrics \cup {metric.name} |->
                    IF n = metric.name
                    THEN MetricValues(Read(metric.current_value),
                                      Read(metric.previous_value))
                    ELSE metrics[n]],
                Tail(rows))

\* get, lines 63-69: the dict comprehension over record.metrics
RECURSIVE RowsToDict(_, _)
RowsToDict(metrics, rows) ==
    IF rows = <<>>
    THEN metrics
    ELSE LET metric == Head(rows)
         IN  RowsToDict(
                [n \in DOMAIN metrics \cup {metric.name} |->
                    IF n = metric.name
                    THEN MetricValues(metric.current_value, metric.previous_value)
                    ELSE metrics[n]],
                Tail(rows))

\* get, lines 60-76, from what the two queries returned: None when no row
\* has the id
GetResult(key, record, rows) ==
    IF record = None
    THEN None
    ELSE ProcessedData(ParseUuid(key), RowsToDict(EmptyDict, rows),
                       record.processed_at, record.error)

\* get, lines 52-76, both queries on one state of the database
Get(db, report_id) ==
    LET key == UuidStr(report_id)
    IN  GetResult(key, SelectReport(db, key), SelectMetrics(db, key))

\* save as one transaction, lines 22-50
Save(db, processed_report) ==
    Flush(db, SessionGet(db, UuidStr(processed_report.report_id)), processed_report)

-----------------------------------------------------------------------------
(* Configuration: container.py, services.py ReportDataBuilder.__init__ *)

\* models.py DefaultMetricsModel: the names of the four default metrics
DefaultMetricNames ==
    {"non_current_assets", "current_assets", "prepaid_expenses", "deferred_tax_assets"}

\* BuilderMetricsConfig as a partial override: the custom metrics are added
\* to the default ones
BuilderMetricsConfigMerged(metrics_config) ==
    IF metrics_config = None
    THEN DefaultMetricNames
    ELSE DefaultMetricNames \cup metrics_config[1]

\* ReportDataBuilder.__init__, lines 47-52: the schema the builder keeps (its
\* key set). metrics_config is None, or Some(names) for a mapping with these
\* keys; a DefaultMetricsModel instance is dumped to a mapping of its four
\* fields, so it is Some(DefaultMetricNames).
BuilderMetricsConfig(metrics_config) ==
    IF metrics_config = None THEN DefaultMetricNames ELSE metrics_config[1]

\* the keyword arguments process passes to prompt_template.format
PromptKwargs == {"metadata_json", "content", "metrics_json"}

\* the replacement fields of DEFAULT_PROMPT_TEMPLATE
DefaultPromptFields == {"metadata_json", "content", "metrics_json"}

\* ReportDataProcessor.__init__: prompt_template or DEFAULT_PROMPT_TEMPLATE
PromptFields(prompt_template) ==
    IF prompt_template = None THEN DefaultPromptFields ELSE prompt_template[1]

\* str.format raises KeyError for a replacement field that is no keyword argument
FormatRaises(prompt_fields) == ~(prompt_fields \subseteq PromptKwargs)

\* configurations: the metrics (none given, or a custom schema), whether the
\* processor factory can build a processor (the llm provider is created on the
\* first build, and raises without an API key), the prompt template (none
\* given, or one with a field process does not supply)
Configs ==
    [metrics         : {None, Some(SchemaNames)},
     factory         : {"builds", "raises"},
     prompt_template : {None, Some({"metadata_json", "report_name"})}]

-----------------------------------------------------------------------------
(* The background run: upload_report.process_in_background *)

\* a report id no upload has drawn
\*   pc         where the task is
\*   result     what report_data_builder.process returned (line 130): the
\*              processor's ProcessedData, or the exception as a value
\*   processed  processed_with_id, the argument of save
\*   session    what the session of save has loaded
\*   logged     the errors the task has logged
NoRun ==
    [pc |-> "none", result |-> None, processed |-> None, session |-> None,
     saveCalls |-> 0, extractor |-> "none", raised |-> "none", logged |-> {}]

\* an exception as a value: str(exc) is its message
Exception(message) == [message |-> message]

Started == {r \in ReportIds : runs[r].pc # "none"}

\* what the structured LLM answers for a schema: nothing; a proposal of a
\* schema name and one of a name outside it; two proposals of one schema name
LlmExtractions(names) ==
    LET n == CHOOSE m \in names : TRUE
    IN  { <<>>,
          << [name |-> n, current |-> Some("100"), previous |-> Some("90")],
             [name |-> "unused", current |-> Some("1"), previous |-> None] >>,
          << [name |-> n, current |-> Some("100"), previous |-> Some("")],
             [name |-> n, current |-> None, previous |-> Some("90")] >> }

\* datetime.now(timezone.utc) as the run of report r reads it: the instant is
\* named after the run, so the instants of different runs differ
Now(r) == r

\* str(exc) of what the LLM call raises: TimeoutError() has the empty text
ExcMessages == {"", "LLM failure"}

\* reports.py line 28
MAX_UPLOAD_SIZE_BYTES == 2 * 1024 * 1024

\* reports.py lines 29-32
ALLOWED_CONTENT_TYPES ==
    {"application/vnd.openxmlformats-officedocument.spreadsheetml.sheet",
     "application/octet-stream"}

\* str.lower() on the suffixes the uploads have
Lower(suffix) ==
    CASE suffix = ".XLSX" -> ".xlsx"
      [] OTHER            -> suffix

\* file names: none, or a stem and the suffix it ends with
Filenames ==
    {None} \cup [stem : {"report"}, suffix : {".xlsx", ".XLSX", ".xlsx.bak"}]

\* the uploads a caller may send: UploadFile.filename, .content_type, .size,
\* and whether XlsxFileReader reads the persisted file (structured_output and
\* read return) or raises
Uploads ==
    [filename     : Filenames,
     content_type : ALLOWED_CONTENT_TYPES \cup {"text/csv"},
     size         : {0, 1, MAX_UPLOAD_SIZE_BYTES, MAX_UPLOAD_SIZE_BYTES + 1},
     readable     : BOOLEAN]

\* not file.filename or not file.filename.lower().endswith(".xlsx"), line 89
BadExtension(filename) ==
    \/ filename = None
    \/ filename.stem = "" /\ filename.suffix = ""
    \/ Lower(filename.suffix) # ".xlsx"

\* upload_report lines 89-119 with _persist_upload 190-219: the detail of the
\* 422 the upload is answered with, or None when it is accepted
UploadRejection(file) ==
    IF BadExtension(file.filename)
    THEN Some("File must have .xlsx extension")
    ELSE IF file.content_type \notin ALLOWED_CONTENT_TYPES
    THEN Some("Unsupported file content type")
    ELSE IF file.size > MAX_UPLOAD_SIZE_BYTES
    THEN Some("File exceeded 2MB limit")
    ELSE IF file.size = 0
    THEN Some("Uploaded file is empty")
    ELSE IF ~file.readable
    THEN Some("Unable to parse the uploaded Excel file")
    ELSE None

\* the temp files of uploads that could not be read: _persist_upload wrote the
\* file (line 101) and the except of lines 114-119 does not remove it. They
\* have no report id; the model keeps one mark for all of them.
UnreadTempFile == 0

\* UploadRejected drawing the report id and scheduling the task before it
\* validates and reads the upload
UploadRejectedAfterScheduling(file) ==
    /\ UploadRejection(file) # None
    /\ Cardinality(Started) < MaxUploads
    /\ nextUuid \in ReportIds
    /\ runs' = [runs EXCEPT ![nextUuid] = [NoRun EXCEPT !.pc = "process"]]
    /\ tempFiles' = tempFiles \cup {nextUuid}
    /\ nextUuid' = nextUuid + 2
    /\ lastUpload' = [status |-> 422]
    /\ UNCHANGED <<nvars, bvars, dbvars, rvars, config, lastResponse>>

\* POST /reports rejected, lines 89-119: the 422 is raised before line 121;
\* no report id is drawn, no task is added
UploadRejected(file) ==
    /\ UploadRejection(file) # None
    /\ tempFiles' =
            IF UploadRejection(file) = Some("Unable to parse the uploaded Excel file")
            THEN tempFiles \cup {UnreadTempFile}
            ELSE tempFiles
    /\ lastUpload' = [status |-> 422]
    /\ UNCHANGED <<nvars, bvars, dbvars, rvars, config, runs, nextUuid, lastResponse>>

\* POST /reports accepted, lines 89-159: the upload passes the checks, is
\* persisted and read, a report id is drawn, the task is scheduled and the
\* id is returned with 202
UploadReport(file) ==
    /\ UploadRejection(file) = None
    /\ Cardinality(Started) < MaxUploads
    /\ nextUuid \in ReportIds
    /\ runs' = [runs EXCEPT ![nextUuid] = [NoRun EXCEPT !.pc = "process"]]
    /\ tempFiles' = tempFiles \cup {nextUuid}
    /\ nextUuid' = nextUuid + 2
    /\ lastUpload' = [status |-> 202, report_id |-> nextUuid]
    /\ UNCHANGED <<nvars, bvars, dbvars, rvars, config, lastResponse>>

\* lines 128-130 up to the LLM call: ReportDataBuilder.process builds the
\* processor (services.py 56-63) and ReportDataProcessor.process formats the
\* prompt (llm_based_processor.py 75-83); neither is inside a try, so what
\* they raise leaves process_in_background
RunProcess(r) ==
    /\ runs[r].pc = "process"
    /\ runs' = [runs EXCEPT ![r] =
            IF config.factory = "raises"
            THEN [@ EXCEPT !.pc = "crashed", !.raised = "build_processor"]
            ELSE IF FormatRaises(PromptFields(config.prompt_template))
            THEN [@ EXCEPT !.pc = "crashed", !.raised = "format"]
            ELSE [@ EXCEPT !.pc = "llm"]]
    /\ UNCHANGED <<nvars, bvars, dbvars, rvars, config, nextUuid, tempFiles, lastResponse, lastUpload>>

\* LlmReturns without model_copy(update={"report_id": generated_id}): the
\* record keeps the id the processor drew
LlmReturnsKeepsProcessorId(r, metrics) ==
    /\ runs[r].pc = "llm"
    /\ LET processed_metrics ==
               BuildMetricsFromExtraction(BuilderMetricsConfig(config.metrics), metrics)
           processed == ProcessedData(r + 1, processed_metrics, Now(r), None)
       IN  runs' = [runs EXCEPT ![r] =
                [@ EXCEPT !.pc = "save", !.extractor = "returned",
                          !.result = processed, !.processed = processed]]
    /\ UNCHANGED <<nvars, bvars, dbvars, rvars, config, nextUuid, tempFiles, lastResponse, lastUpload>>

\* LlmReturns building a new ProcessedData for the report id, stamped with its
\* own instant, in place of the copy of the processor's
LlmReturnsRestamps(r, metrics) ==
    /\ runs[r].pc = "llm"
    /\ LET processed_metrics ==
               BuildMetricsFromExtraction(BuilderMetricsConfig(config.metrics), metrics)
           processed == ProcessedData(r + 1, processed_metrics, Now(r), None)
           processed_with_id == ProcessedData(r, processed_metrics, Now(r) + 1, None)
       IN  runs' = [runs EXCEPT ![r] =
                [@ EXCEPT !.pc = "save", !.extractor = "returned",
                          !.result = processed, !.processed = processed_with_id]]
    /\ UNCHANGED <<nvars, bvars, dbvars, rvars, config, nextUuid, tempFiles, lastResponse, lastUpload>>

\* llm_based_processor.py 86, 91-98 and reports.py 132, 143-146: ainvoke
\* returns, the metrics are normalized, the processor draws its own uuid7 and
\* the instant; the run replaces the id by the report id and calls save
LlmReturns(r, metrics) ==
    /\ runs[r].pc = "llm"
    /\ LET processed_metrics ==
               BuildMetricsFromExtraction(BuilderMetricsConfig(config.metrics), metrics)
           processed == ProcessedData(r + 1, processed_metrics, Now(r), None)
           processed_with_id == [processed EXCEPT !.report_id = r]
       IN  runs' = [runs EXCEPT ![r] =
                [@ EXCEPT !.pc = "save", !.extractor = "returned",
                          !.result = processed, !.processed = processed_with_id]]
    /\ UNCHANGED <<nvars, bvars, dbvars, rvars, config, nextUuid, tempFiles, lastResponse, lastUpload>>

\* LlmRaises building the failed ProcessedData without its error
LlmRaisesDropsError(r, message) ==
    /\ runs[r].pc = "llm"
    /\ runs' = [runs EXCEPT ![r] =
            [@ EXCEPT !.pc = "save", !.extractor = "raised",
                      !.result = Exception(message),
                      !.logged = @ \cup {"failed during processing"},
                      !.processed = ProcessedData(r, EmptyDict, Now(r), None)]]
    /\ UNCHANGED <<nvars, bvars, dbvars, rvars, config, nextUuid, tempFiles, lastResponse, lastUpload>>

\* llm_based_processor.py 87-89 and reports.py 132-146: ainvoke raises, the
\* exception is returned as a value, the run logs it and builds the failed
\* ProcessedData (data {}, error str(exc), processed_at by default now) and
\* calls save
LlmRaises(r, message) ==
    /\ runs[r].pc = "llm"
    /\ runs' = [runs EXCEPT ![r] =
            [@ EXCEPT !.pc = "save", !.extractor = "raised",
                      !.result = Exception(message),
                      !.logged = @ \cup {"failed during processing"},
                      !.processed = ProcessedData(r, EmptyDict, Now(r), Some(message))]]
    /\ UNCHANGED <<nvars, bvars, dbvars, rvars, config, nextUuid, tempFiles, lastResponse, lastUpload>>

\* SaveBegin writing a pending report row, committed at once, when it starts
SaveBeginWritesPending(r) ==
    /\ runs[r].pc = "save"
    /\ runs' = [runs EXCEPT ![r] =
            [@ EXCEPT !.pc = "commit", !.saveCalls = @ + 1,
                      !.session = [found |-> TRUE, processed_at |-> Now(r),
                                   error |-> None, loaded |-> {}]]]
    /\ processed_reports' =
            [k \in DOMAIN processed_reports \cup {UuidStr(r)} |->
                IF k = UuidStr(r)
                THEN [processed_at |-> Now(r), error |-> None]
                ELSE processed_reports[k]]
    /\ UNCHANGED <<nvars, bvars, rvars, config, nextUuid, tempFiles, lastResponse,
                   lastUpload, processed_report_metrics, nextMetricId>>

\* reports.py 146, repository 23-29: save is called, opens its transaction and
\* reads the record of the id
SaveBegin(r) ==
    /\ runs[r].pc = "save"
    /\ runs' = [runs EXCEPT ![r] =
            [@ EXCEPT !.pc = "commit", !.saveCalls = @ + 1,
                      !.session = SessionGet(Db, UuidStr(runs[r].processed.report_id))]]
    /\ UNCHANGED <<nvars, bvars, dbvars, rvars, config, nextUuid, tempFiles, lastResponse, lastUpload>>

\* reports.py 146: save is called and the database is unavailable; the
\* exception leaves process_in_background (nothing catches it)
SaveUnavailable(r) ==
    /\ runs[r].pc = "save"
    /\ runs' = [runs EXCEPT ![r] =
            [@ EXCEPT !.pc = "crashed", !.saveCalls = @ + 1, !.raised = "save"]]
    /\ UNCHANGED <<nvars, bvars, dbvars, rvars, config, nextUuid, tempFiles, lastResponse, lastUpload>>

\* repository 30-50: the record is created or updated, its metrics replaced,
\* and the transaction commits
SaveCommit(r) ==
    /\ runs[r].pc = "commit"
    /\ IF FlushRefused(Db, runs[r].session, runs[r].processed)
       THEN /\ runs' = [runs EXCEPT ![r] = [@ EXCEPT !.pc = "crashed", !.raised = "save"]]
            /\ UNCHANGED dbvars
       ELSE /\ LET db == Flush(Db, runs[r].session, runs[r].processed)
               IN  /\ processed_reports' = db.reports
                   /\ processed_report_metrics' = db.metrics
                   /\ nextMetricId' = db.nextId
            /\ runs' = [runs EXCEPT ![r] = [@ EXCEPT !.pc = "cleanup"]]
    /\ UNCHANGED <<nvars, bvars, rvars, config, nextUuid, tempFiles, lastResponse, lastUpload>>

\* Cleanup without the except of lines 151-152: the OSError of os.remove
\* leaves the task
CleanupPropagates(r, removed) ==
    /\ runs[r].pc = "cleanup"
    /\ runs' = [runs EXCEPT ![r] =
            IF r \in tempFiles /\ ~removed
            THEN [@ EXCEPT !.pc = "crashed", !.raised = "cleanup"]
            ELSE [@ EXCEPT !.pc = "done"]]
    /\ tempFiles' = IF removed THEN tempFiles \ {r} ELSE tempFiles
    /\ UNCHANGED <<nvars, bvars, dbvars, rvars, config, nextUuid, lastResponse, lastUpload>>

\* reports.py 148-152, after save has returned: if the temp file named by
\* metadata["source"] exists, os.remove is called; it removes the file, or
\* raises OSError, which is logged
Cleanup(r, removed) ==
    /\ runs[r].pc = "cleanup"
    /\ runs' = [runs EXCEPT ![r] =
            IF r \in tempFiles /\ ~removed
            THEN [@ EXCEPT !.pc = "done",
                           !.logged = @ \cup {"failed to remove temp file"}]
            ELSE [@ EXCEPT !.pc = "done"]]
    /\ tempFiles' = IF removed THEN tempFiles \ {r} ELSE tempFiles
    /\ UNCHANGED <<nvars, bvars, dbvars, rvars, config, nextUuid, lastResponse, lastUpload>>

-----------------------------------------------------------------------------
(* Retrieval: get_processed_report *)

\* lines 162-187
GetProcessedReport(db, report_id) ==
    LET processed == Get(db, report_id)
    IN  IF processed = None
        THEN [status |-> 404, detail |-> "Report not found"]
        ELSE IF processed.error # None /\ processed.error # Some("")     \* if processed.error:
        THEN [status |-> 500,
              detail |-> "Report processing failed. Please try again later."]
        ELSE [status |-> 200, report_id |-> processed.report_id,
              processed_at |-> processed.processed_at, data |-> processed.data]

\* GET /reports/{report_id}
Retrieve(report_id) ==
    /\ lastResponse' = [report_id |-> report_id,
                        status    |-> GetProcessedReport(Db, report_id).status]
    /\ UNCHANGED <<nvars, bvars, dbvars, rvars, config, runs, nextUuid, tempFiles, lastUpload>>

-----------------------------------------------------------------------------
(* Specification SpecNorm: the normalizer applied to every schema and list *)

\* the parts of the state a specification does not use
NormIdle ==
    /\ nConfig = {}
    /\ nExtraction = <<>>
    /\ nProcessed = None
    /\ nPc = "idle"

BuilderIdle ==
    /\ bArg = None
    /\ bBuilder = None
    /\ bProcessors = <<>>
    /\ bCalls = <<>>

DbEmpty ==
    /\ processed_reports = EmptyDb.reports
    /\ processed_report_metrics = EmptyDb.metrics
    /\ nextMetricId = EmptyDb.nextId

\* callers of save and of get that run concurrently, one session each
Savers == {"save1", "save2"}

Getters == {"get1"}

\* a caller that has not called yet
\*   pc      where the call is
\*   arg     the ProcessedData given to save, the report id given to get
\*   record  what the first query returned (get)
\*   session what the session has loaded (save)
\*   result  what get returned
NoCall ==
    [pc |-> "idle", arg |-> None, record |-> None, session |-> None, result |-> None]

RepoIdle ==
    /\ savedPrev = None
    /\ savedLast = None
    /\ saveCount = 0
    /\ sessions = [c \in Savers \cup Getters |-> NoCall]

AppIdle ==
    /\ config = None
    /\ runs = [r \in ReportIds |-> NoRun]
    /\ nextUuid = 1
    /\ tempFiles = {}
    /\ lastResponse = None
    /\ lastUpload = None

NormInit ==
    /\ nConfig \in SUBSET SchemaNames
    /\ nExtraction \in SeqUpTo(ExtractedMetric, MaxProposals)
    /\ nProcessed = None
    /\ nPc = "input"
    /\ BuilderIdle
    /\ DbEmpty
    /\ RepoIdle
    /\ AppIdle

Normalize ==
    /\ nPc = "input"
    /\ nProcessed' = BuildMetricsFromExtraction(nConfig, nExtraction)
    /\ nPc' = "done"
    /\ UNCHANGED <<nConfig, nExtraction, bvars, dbvars, rvars, avars>>

NormNext == Normalize

SpecNorm == NormInit /\ [][NormNext]_vars

-----------------------------------------------------------------------------
(* Specification SpecBuilder: a ReportDataBuilder constructed with any
   metrics_config, building processors *)

\* names of custom metrics: some are no default metric, some are
CustomNames == SchemaNames \cup {"revenue", "current_assets", "prepaid_expenses"}

\* the metrics_config arguments: None, or a mapping keyed by custom names
\* (the empty mapping too), or the dump of a DefaultMetricsModel
BuilderArgs ==
    {None} \cup {Some(names) : names \in SUBSET CustomNames} \cup {Some(DefaultMetricNames)}

BuilderInit ==
    /\ NormIdle
    /\ bArg \in BuilderArgs
    /\ bBuilder = None
    /\ bProcessors = <<>>
    /\ bCalls = <<>>
    /\ DbEmpty
    /\ RepoIdle
    /\ AppIdle

\* ReportDataBuilder(metrics_config=bArg, processor_factory=...)
BuilderConstruct ==
    /\ bBuilder = None
    /\ bBuilder' = [metrics_config |-> BuilderMetricsConfig(bArg)]
    /\ UNCHANGED <<bArg, bProcessors, bCalls, nvars, dbvars, rvars, avars>>

\* the factory called with a schema: a new processor that copies it
\* (services.py 20-22); by tells which method of the builder called
NewProcessor(metrics_config, by) == [metrics_config |-> metrics_config, by |-> by]

\* build_processor, lines 56-57: the factory is called with the builder's
\* metrics_config
BuildProcessor ==
    /\ bBuilder # None
    /\ Len(bProcessors) < MaxBuilds
    /\ bProcessors' =
            Append(bProcessors, NewProcessor(bBuilder.metrics_config, "build_processor"))
    /\ UNCHANGED <<bArg, bBuilder, bCalls, nvars, dbvars, rvars, avars>>

\* what the process of a processor with a schema may produce: a ProcessedData
\* keyed by the schema, or the exception of the LLM call as a value
ProcessOutcomes(metrics_config) ==
    {ProcessedData(2, [n \in metrics_config |-> MetricValues(None, None)], 1, None),
     ProcessedData(2, [n \in metrics_config |-> MetricValues(Some("100"), Some(""))], 1, None),
     Exception(""),
     Exception("LLM failure")}

\* BuilderProcess keeping the first processor it built and using it again in
\* the later calls
BuilderProcessReusesProcessor(produced) ==
    /\ bBuilder # None
    /\ Len(bProcessors) < MaxBuilds
    /\ produced \in ProcessOutcomes(bBuilder.metrics_config)
    /\ bProcessors' =
            IF bCalls = <<>>
            THEN Append(bProcessors, NewProcessor(bBuilder.metrics_config, "process"))
            ELSE bProcessors
    /\ bCalls' =
            Append(bCalls,
                   [processor |-> IF bCalls = <<>> THEN Len(bProcessors) + 1
                                  ELSE bCalls[1].processor,
                    produced  |-> produced,
                    returned  |-> produced])
    /\ UNCHANGED <<bArg, bBuilder, nvars, dbvars, rvars, avars>>

\* process, lines 59-63: processor = self.build_processor(), then what
\* processor.process produces is returned
BuilderProcess(produced) ==
    /\ bBuilder # None
    /\ Len(bProcessors) < MaxBuilds
    /\ produced \in ProcessOutcomes(bBuilder.metrics_config)
    /\ bProcessors' =
            Append(bProcessors, NewProcessor(bBuilder.metrics_config, "process"))
    /\ bCalls' =
            Append(bCalls,
                   [processor |-> Len(bProcessors) + 1,
                    produced  |-> produced,
                    returned  |-> produced])
    /\ UNCHANGED <<bArg, bBuilder, nvars, dbvars, rvars, avars>>

\* everything a processor may produce, for any schema
AllProcessOutcomes ==
    UNION {ProcessOutcomes(names) : names \in SUBSET (CustomNames \cup DefaultMetricNames)}

BuilderNext ==
    \/ BuilderConstruct
    \/ BuildProcessor
    \/ \E produced \in AllProcessOutcomes : BuilderProcess(produced)

SpecBuilder == BuilderInit /\ [][BuilderNext]_vars

-----------------------------------------------------------------------------
(* Specification SpecRepo: save called with arbitrary ProcessedData *)

\* report ids the harness saves under
RepoIds == {1, 2}

\* values of processed_at the harness saves
RepoInstants == {1, 2}

\* metric values the harness saves: absent, empty string and text all occur
RepoValues == {MetricValues(None, Some("")), MetricValues(Some("100"), None)}

RepoDicts == UNION {[names -> RepoValues] : names \in SUBSET SchemaNames}

\* error of a ProcessedData: absent, the empty string, a message
RepoErrors == {None, Some(""), Some("LLM failure")}

RepoReports ==
    [report_id : RepoIds, data : RepoDicts,
     processed_at : RepoInstants, error : RepoErrors]

RepoInit ==
    /\ NormIdle
    /\ BuilderIdle
    /\ DbEmpty
    /\ RepoIdle
    /\ AppIdle

\* await repository.save(processed_report)
RepoSave(processed_report) ==
    /\ saveCount < MaxSaves
    /\ LET db == Save(Db, processed_report)
       IN  /\ processed_reports' = db.reports
           /\ processed_report_metrics' = db.metrics
           /\ nextMetricId' = db.nextId
    /\ savedPrev' = savedLast
    /\ savedLast' = processed_report
    /\ saveCount' = saveCount + 1
    /\ UNCHANGED <<nvars, bvars, avars, sessions>>

RepoNext == \E processed_report \in RepoReports : RepoSave(processed_report)

SpecRepo == RepoInit /\ [][RepoNext]_vars

-----------------------------------------------------------------------------
(* Specification SpecConc: save and get called concurrently. Each call runs in
   a session of its own; the event loop may switch between the calls at every
   await, that is at each query and at the commit. A query reads what is
   committed when it runs; what a save writes is committed, and visible to
   the others, at once at the end of its transaction. *)

\* the reports the concurrent callers save: two successes that share the
\* error, a success and a failure that share processed_at
ConcReports ==
    UNION {{ProcessedData(id, [cash |-> MetricValues(Some("100"), None)], 1, None),
            ProcessedData(id, [cash |-> MetricValues(None, Some("")),
                               debt |-> MetricValues(Some("100"), None)], 2, None),
            ProcessedData(id, EmptyDict, 2, Some("LLM failure"))} : id \in RepoIds}

\* the repository is empty, or one report has been saved before the
\* concurrent calls start (savedLast is that report)
ConcInit ==
    /\ NormIdle
    /\ BuilderIdle
    /\ AppIdle
    /\ sessions = [c \in Savers \cup Getters |-> NoCall]
    /\ savedPrev = None
    /\ \/ /\ savedLast = None
          /\ saveCount = 0
          /\ DbEmpty
       \/ /\ savedLast \in ConcReports
          /\ saveCount = 1
          /\ processed_reports = Save(EmptyDb, savedLast).reports
          /\ processed_report_metrics = Save(EmptyDb, savedLast).metrics
          /\ nextMetricId = Save(EmptyDb, savedLast).nextId

\* save(processed_report) is called: lines 22-24
ConcSaveCall(c, processed_report) ==
    /\ sessions[c].pc = "idle"
    /\ sessions' = [sessions EXCEPT ![c] =
            [@ EXCEPT !.pc = "select", !.arg = processed_report]]
    /\ UNCHANGED <<nvars, bvars, dbvars, avars, savedPrev, savedLast, saveCount>>

\* save, lines 25-29, first query of session.get: the report row. When there
\* is none, session.get returns None and no second query is made.
ConcSaveSelect(c) ==
    /\ sessions[c].pc = "select"
    /\ LET record == SelectReport(Db, UuidStr(sessions[c].arg.report_id))
       IN  sessions' = [sessions EXCEPT ![c] =
                IF record = None
                THEN [@ EXCEPT !.pc = "flush", !.session = Loaded(None, <<>>)]
                ELSE [@ EXCEPT !.pc = "selectin", !.record = record]]
    /\ UNCHANGED <<nvars, bvars, dbvars, avars, savedPrev, savedLast, saveCount>>

\* save, lines 25-29, second query of session.get: the metric rows
ConcSaveSelectIn(c) ==
    /\ sessions[c].pc = "selectin"
    /\ LET rows == SelectMetrics(Db, UuidStr(sessions[c].arg.report_id))
       IN  sessions' = [sessions EXCEPT ![c] =
                [@ EXCEPT !.pc = "flush", !.session = Loaded(sessions[c].record, rows)]]
    /\ UNCHANGED <<nvars, bvars, dbvars, avars, savedPrev, savedLast, saveCount>>

\* save, lines 30-50 and the commit: the INSERT of a report row whose key
\* another save has committed meanwhile is refused and save raises; else the
\* flush is committed
ConcSaveCommit(c) ==
    /\ sessions[c].pc = "flush"
    /\ IF FlushRefused(Db, sessions[c].session, sessions[c].arg)
       THEN /\ sessions' = [sessions EXCEPT ![c] = [@ EXCEPT !.pc = "raised"]]
            /\ UNCHANGED dbvars
       ELSE /\ LET db == Flush(Db, sessions[c].session, sessions[c].arg)
               IN  /\ processed_reports' = db.reports
                   /\ processed_report_metrics' = db.metrics
                   /\ nextMetricId' = db.nextId
            /\ sessions' = [sessions EXCEPT ![c] = [@ EXCEPT !.pc = "done"]]
    /\ UNCHANGED <<nvars, bvars, avars, savedPrev, savedLast, saveCount>>

\* get(report_id) is called (again, when an earlier call has returned)
ConcGetCall(c, report_id) ==
    /\ sessions[c].pc \in {"idle", "done"}
    /\ sessions' = [sessions EXCEPT ![c] =
            [NoCall EXCEPT !.pc = "select", !.arg = report_id]]
    /\ UNCHANGED <<nvars, bvars, dbvars, avars, savedPrev, savedLast, saveCount>>

\* get, lines 54-61, first query: the report row; None is returned when there
\* is none
ConcGetSelect(c) ==
    /\ sessions[c].pc = "select"
    /\ LET record == SelectReport(Db, UuidStr(sessions[c].arg))
       IN  sessions' = [sessions EXCEPT ![c] =
                IF record = None
                THEN [@ EXCEPT !.pc = "done", !.result = None]
                ELSE [@ EXCEPT !.pc = "selectin", !.record = record]]
    /\ UNCHANGED <<nvars, bvars, dbvars, avars, savedPrev, savedLast, saveCount>>

\* get, second query (selectinload) and lines 63-76
ConcGetSelectIn(c) ==
    /\ sessions[c].pc = "selectin"
    /\ LET key  == UuidStr(sessions[c].arg)
           rows == SelectMetrics(Db, key)
       IN  sessions' = [sessions EXCEPT ![c] =
                [@ EXCEPT !.pc = "done",
                          !.result = GetResult(key, sessions[c].record, rows)]]
    /\ UNCHANGED <<nvars, bvars, dbvars, avars, savedPrev, savedLast, saveCount>>

ConcNext ==
    \/ \E c \in Savers :
          \/ \E processed_report \in ConcReports : ConcSaveCall(c, processed_report)
          \/ ConcSaveSelect(c)
          \/ ConcSaveSelectIn(c)
          \/ ConcSaveCommit(c)
    \/ \E c \in Getters :
          \/ \E report_id \in RepoIds : ConcGetCall(c, report_id)
          \/ ConcGetSelect(c)
          \/ ConcGetSelectIn(c)

SpecConc == ConcInit /\ [][ConcNext]_vars

-----------------------------------------------------------------------------
(* Specification Spec: uploads, their background runs, and retrievals *)

Init ==
    /\ NormIdle
    /\ BuilderIdle
    /\ DbEmpty
    /\ RepoIdle
    /\ config \in Configs
    /\ runs = [r \in ReportIds |-> NoRun]
    /\ nextUuid = 1
    /\ tempFiles = {}
    /\ lastResponse = None
    /\ lastUpload = None

\* one step of the task of report r
RunStep(r) ==
    \/ RunProcess(r)
    \/ \E metrics \in LlmExtractions(BuilderMetricsConfig(config.metrics)) :
          LlmReturns(r, metrics)
    \/ \E message \in ExcMessages : LlmRaises(r, message)
    \/ SaveBegin(r)
    \/ SaveUnavailable(r)
    \/ SaveCommit(r)
    \/ \E removed \in BOOLEAN : Cleanup(r, removed)

\* uploads and their runs
NextRuns ==
    \/ \E file \in Uploads : UploadReport(file)
    \/ \E r \in ReportIds : RunStep(r)

Next ==
    \/ NextRuns
    \/ \E report_id \in Uuids : Retrieve(report_id)

Spec == Init /\ [][Next]_vars

\* Every upload, accepted or rejected, and the runs, for the application
\* started without configuration of its own. A rejected upload writes
\* nothing a run or a retrieval reads, so Spec and FairSpec leave them out.
DefaultConfig == [metrics |-> None, factory |-> "builds", prompt_template |-> None]

UploadInit == Init /\ config = DefaultConfig

NextUploads ==
    \/ NextRuns
    \/ \E file \in Uploads : UploadRejected(file)

SpecUpload == UploadInit /\ [][NextUploads]_vars

\* The runs alone, under the scheduling of the event loop: every task that can
\* take a step takes one, and a call that was started returns or raises.
\* Retrievals are left out: they write lastResponse only, which no run reads.
FairSpec == Init /\ [][NextRuns]_vars /\ \A r \in ReportIds : WF_vars(RunStep(r))

-----------------------------------------------------------------------------
(* Claims about the normalizer, checked under SpecNorm *)

\* positions of the proposals named n
Positions(metrics, n) == {i \in 1..Len(metrics) : metrics[i].name = n}

\* the greatest element of a non-empty set of naturals
Max(S) == CHOOSE m \in S : \A k \in S : k <= m

\* C1: whatever the proposals are (none, duplicates, names outside the schema),
\* the mapping the normalizer returns has exactly the schema's names as keys,
\* and a name no proposal matched has current and previous absent.
C1_KeySetIsSchema ==
    nPc = "done" =>
        /\ DOMAIN nProcessed = nConfig
        /\ \A n \in nConfig :
              Positions(nExtraction, n) = {} =>
                  nProcessed[n] = MetricValues(None, None)

\* C1 witness: the call returned for a non-empty schema, and the proposals
\* held a duplicate name that is not a schema key.
C1_Witness ==
    /\ nPc = "done"
    /\ nConfig # {}
    /\ \E i, j \in 1..Len(nExtraction) :
          /\ i < j
          /\ nExtraction[i].name = nExtraction[j].name
          /\ nExtraction[i].name \notin nConfig

\* C2: for each schema name that occurs among the proposals, the entry is
\* exactly the current and previous of the last proposal of that name; nothing
\* of an earlier duplicate survives.
C2_LastProposalWins ==
    nPc = "done" =>
        \A n \in nConfig :
            Positions(nExtraction, n) # {} =>
                LET last == nExtraction[Max(Positions(nExtraction, n))]
                IN  nProcessed[n] = MetricValues(last.current, last.previous)

\* C2 witness: two proposals of one schema name, the earlier with a current
\* value and the later without, and the entry has current absent.
C2_Witness ==
    /\ nPc = "done"
    /\ \E i, j \in 1..Len(nExtraction) :
          /\ i < j
          /\ nExtraction[i].name = nExtraction[j].name
          /\ nExtraction[i].name \in nConfig
          /\ nExtraction[i].current # None
          /\ nExtraction[j].current = None
          /\ nProcessed[nExtraction[j].name].current = None

-----------------------------------------------------------------------------
(* Claims about the background run, checked under Spec and FairSpec *)

\* the schema the configured builder hands to its processors
ConfiguredSchema == BuilderMetricsConfig(config.metrics)

\* get(r) returns a failed record of id r: error not absent, metrics empty
FailedRecordStored(r) ==
    LET processed == Get(Db, r)
    IN  /\ processed # None
        /\ processed.report_id = r
        /\ processed.error # None
        /\ processed.data = EmptyDict

\* get(r) returns a successful record of id r keyed exactly by the schema
SuccessRecordStored(r) ==
    LET processed == Get(Db, r)
    IN  /\ processed # None
        /\ processed.report_id = r
        /\ processed.error = None
        /\ DOMAIN processed.data = ConfiguredSchema

\* C3: whatever is raised inside report_data_builder.process (building the
\* processor, formatting the prompt, the LLM call, normalizing), the run still
\* calls repository.save: no run is ended by an exception before its save.
C3_StepOneNeverSkipsSave ==
    \A r \in ReportIds : runs[r].pc = "crashed" => runs[r].saveCalls >= 1

\* C4 as stated: once the LLM call of run r has failed, the run eventually
\* saves and from then on get(r) returns a failed record of id r.
C4_FailureAlwaysRecorded ==
    \A r \in ReportIds :
        (runs[r].extractor = "raised") ~> [](FailedRecordStored(r))

\* C4 amended: once the LLM call of run r has failed, eventually either save
\* has raised or get(r) returns a record of id r with error not absent and
\* empty metrics; and once get(r) returns such a record it does so for ever.
C4_FailureRecordedUnlessSaveRaises ==
    /\ \A r \in ReportIds :
          (runs[r].extractor = "raised") ~>
              (runs[r].raised = "save" \/ FailedRecordStored(r))
    /\ [][\A r \in ReportIds : FailedRecordStored(r) => FailedRecordStored(r)']_vars

\* C4 witness: the LLM call raised with an empty message, the run saved, and
\* get returns the failed record.
C4_Witness ==
    \E r \in ReportIds :
        /\ runs[r].extractor = "raised"
        /\ runs[r].pc = "done"
        /\ FailedRecordStored(r)
        /\ Get(Db, r).error = Some("")

\* C5 as stated: once the LLM call of run r has returned, the run eventually
\* saves and from then on get(r) returns a record of id r without error whose
\* metrics are keyed exactly by the configured schema.
C5_SuccessAlwaysRecorded ==
    \A r \in ReportIds :
        (runs[r].extractor = "returned") ~> [](SuccessRecordStored(r))

\* C5 amended: once the LLM call of run r has returned, eventually either save
\* has raised or get(r) returns a record of id r with error absent and metrics
\* keyed exactly by the configured schema; and once get(r) returns such a
\* record it does so for ever.
C5_SuccessRecordedUnlessSaveRaises ==
    /\ \A r \in ReportIds :
          (runs[r].extractor = "returned") ~>
              (runs[r].raised = "save" \/ SuccessRecordStored(r))
    /\ [][\A r \in ReportIds : SuccessRecordStored(r) => SuccessRecordStored(r)']_vars

\* C5 witness: the LLM proposed a schema name and a name outside the schema,
\* the run saved, and get returns the record keyed by the default schema.
C5_Witness ==
    \E r \in ReportIds :
        /\ runs[r].extractor = "returned"
        /\ runs[r].pc = "done"
        /\ config.metrics = None
        /\ SuccessRecordStored(r)
        /\ \E n \in ConfiguredSchema : Get(Db, r).data[n].current = Some("100")

\* C6: a run never calls save more than once, and every run that has ended
\* has called it exactly once.
C6_ExactlyOneSavePerRun ==
    \A r \in ReportIds :
        /\ runs[r].saveCalls <= 1
        /\ runs[r].pc \in {"done", "crashed"} => runs[r].saveCalls = 1

\* the save of the run of report id has committed
SaveCommitted(id) == id \in ReportIds /\ runs[id].pc \in {"cleanup", "done"}

\* C7: for every id whose save has not committed (never issued, or its run
\* still in progress), get returns None and the endpoint answers 404; a record
\* that is stored is the whole terminal record of its run; and a retrieval that
\* did not answer 404 was for an id whose save had committed.
C7_NotFoundBeforeTerminal ==
    /\ \A id \in Uuids :
          IF SaveCommitted(id)
          THEN Get(Db, id) = runs[id].processed
          ELSE /\ Get(Db, id) = None
               /\ GetProcessedReport(Db, id).status = 404
    /\ lastResponse # None =>
          (lastResponse.status # 404 => SaveCommitted(lastResponse.report_id))

\* C7 witness: the latest retrieval was for the id of a run whose save is in
\* its transaction, not yet committed, and was answered 404.
C7_Witness ==
    /\ lastResponse # None
    /\ lastResponse.status = 404
    /\ lastResponse.report_id \in ReportIds
    /\ runs[lastResponse.report_id].pc = "commit"
    /\ runs[lastResponse.report_id].processed.error = None

\* C8: every run that has started eventually calls repository.save.
C8_StartedRunCallsSave ==
    \A r \in ReportIds :
        (runs[r].pc # "none") ~> (runs[r].saveCalls >= 1)

\* C14: once a run whose LLM call returned has saved, the record is stored
\* under the report id of the upload and nothing is stored under the id the
\* processor drew; the stored metrics and processed_at are those of the
\* processor's result, and a retrieval of the report id is answered 200 with
\* these metrics.
C14_StoredUnderUploadId ==
    \A r \in ReportIds :
        (runs[r].extractor = "returned" /\ SaveCommitted(r)) =>
            LET result == runs[r].result
                got    == Get(Db, r)
                answer == GetProcessedReport(Db, r)
            IN  /\ result.report_id # r
                /\ Get(Db, result.report_id) = None
                /\ got # None
                /\ got.report_id = r
                /\ got.data = result.data
                /\ got.processed_at = result.processed_at
                /\ answer.status = 200
                /\ answer.report_id = r
                /\ answer.data = result.data

\* C14 witness: a run whose LLM call returned a value for a metric has ended,
\* and the latest retrieval, of its report id, was answered 200.
C14_Witness ==
    \E r \in ReportIds :
        /\ runs[r].extractor = "returned"
        /\ runs[r].pc = "done"
        /\ runs[r].result.report_id = r + 1
        /\ \E n \in DOMAIN runs[r].result.data :
              runs[r].result.data[n].current = Some("100")
        /\ lastResponse = [report_id |-> r, status |-> 200]

\* C15: an upload that is rejected (bad extension, content type not allowed,
\* over 2 MB, empty, or unreadable) is answered 422 and nothing else happens:
\* the answer carries no report id, no report id is drawn, no task is added or
\* advanced, save is not called and the tables are unchanged; so every stored
\* record and every task belongs to a report id that an accepted upload drew.
C15_RejectedUploadCreatesNothing ==
    /\ [][(/\ lastUpload' # lastUpload
           /\ lastUpload' # None
           /\ lastUpload'.status = 422) =>
              /\ "report_id" \notin DOMAIN lastUpload'
              /\ UNCHANGED <<nextUuid, runs, dbvars>>]_vars
    /\ [](/\ \A r \in Started : r < nextUuid
          /\ \A id \in Uuids : Get(Db, id) # None => id \in Started)

\* C15 witness: one upload was accepted and its run has ended; the latest
\* upload could not be read and was answered 422; there is still one task
\* and one stored record.
C15_Witness ==
    /\ lastUpload = [status |-> 422]
    /\ UnreadTempFile \in tempFiles
    /\ Started = {1}
    /\ runs[1].pc = "done"
    /\ DOMAIN processed_reports = {UuidStr(1)}

\* the temp file of report r was released, or its removal failed and was logged
ReleaseAttempted(r) ==
    \/ r \notin tempFiles
    \/ "failed to remove temp file" \in runs[r].logged

\* C16: in every run whose extraction step returned, a failure as a success,
\* once save has returned the run goes on to remove the temp file and ends
\* normally: the file is gone, or the removal failed and was logged; the step
\* that removes the file raises nothing out of the run and leaves the tables
\* as they were; and the file of a run is never gone before its save returned.
C16_ReleaseAfterSave ==
    /\ \A r \in ReportIds :
          (runs[r].pc = "cleanup") ~> (runs[r].pc = "done" /\ ReleaseAttempted(r))
    /\ [][\A r \in ReportIds :
            (runs[r].pc = "cleanup" /\ runs'[r].pc # "cleanup") =>
                /\ runs'[r].pc = "done"
                /\ runs'[r].raised = "none"
                /\ UNCHANGED dbvars]_vars
    /\ [](\A r \in Started :
            /\ runs[r].pc \in {"cleanup", "done"} =>
                  runs[r].extractor \in {"returned", "raised"} /\ runs[r].saveCalls = 1
            /\ runs[r].pc = "done" => ReleaseAttempted(r)
            /\ r \notin tempFiles => runs[r].pc = "done")

\* C16 witness: a run whose LLM call returned has ended with its temp file
\* removed; a run whose LLM call raised has ended with the removal failed and
\* logged, its temp file still there and its failed record stored.
C16_Witness ==
    \E r1, r2 \in ReportIds :
        /\ runs[r1].extractor = "returned"
        /\ runs[r1].pc = "done"
        /\ r1 \notin tempFiles
        /\ runs[r2].extractor = "raised"
        /\ runs[r2].pc = "done"
        /\ r2 \in tempFiles
        /\ "failed to remove temp file" \in runs[r2].logged
        /\ FailedRecordStored(r2)

\* C21: every run that has started eventually attempts to release its temp
\* file (the file is removed, or the removal failed and was logged), also
\* when an exception leaves the extraction step or save raises; and the temp
\* file of a run is not gone before the run has ended.
C21_ReleaseGuaranteed ==
    /\ \A r \in ReportIds :
          (runs[r].pc # "none") ~> ReleaseAttempted(r)
    /\ [](\A r \in Started :
            r \notin tempFiles => runs[r].pc \in {"done", "crashed"})

\* the failure response of get_processed_report
FailureResponse ==
    [status |-> 500, detail |-> "Report processing failed. Please try again later."]

\* C12: for every stored record whose error is not absent, whatever its text,
\* get_processed_report answers 500 with the fixed generic message and no
\* metrics; so two records that differ only in the error text get the same
\* response.
C12_ErrorAlwaysGenericFailure ==
    \A id \in Uuids :
        LET processed == Get(Db, id)
        IN  (processed # None /\ processed.error # None) =>
                GetProcessedReport(Db, id) = FailureResponse

\* C13: whatever the LLM call raised, once the run has saved, the record of
\* its id has an error that is a non-empty string and empty metrics, and a
\* retrieval of the id is answered with the failure response.
C13_ExtractorFailureIsFailureResponse ==
    \A r \in ReportIds :
        (runs[r].extractor = "raised" /\ SaveCommitted(r)) =>
            LET processed == Get(Db, r)
            IN  /\ processed # None
                /\ processed.error # None
                /\ processed.error # Some("")
                /\ processed.data = EmptyDict
                /\ GetProcessedReport(Db, r) = FailureResponse

-----------------------------------------------------------------------------
(* Claims about the builder, checked under SpecBuilder *)

\* C17: a builder constructed with a custom metrics_config hands every
\* processor a schema whose key set is exactly the custom key set, with no
\* default metric added; a builder constructed with none hands every
\* processor exactly the four default metrics.
C17_CustomSchemaReplacesDefault ==
    /\ bBuilder # None =>
          bBuilder.metrics_config = (IF bArg = None THEN DefaultMetricNames ELSE bArg[1])
    /\ \A i \in 1..Len(bProcessors) :
          IF bArg = None
          THEN bProcessors[i].metrics_config =
                  {"non_current_assets", "current_assets",
                   "prepaid_expenses", "deferred_tax_assets"}
          ELSE /\ bProcessors[i].metrics_config = bArg[1]
               /\ \A n \in DefaultMetricNames \ bArg[1] :
                     n \notin bProcessors[i].metrics_config

\* C17 witness: a builder with a custom schema that has one default metric and
\* one of its own has built a processor.
C17_Witness ==
    /\ bArg = Some({"cash", "current_assets"})
    /\ Len(bProcessors) >= 1
    /\ bProcessors[1].metrics_config = {"cash", "current_assets"}

\* the processors that calls of process had the factory build
BuiltByProcess == {i \in 1..Len(bProcessors) : bProcessors[i].by = "process"}

\* C22: every call of process on a builder has the factory build one
\* processor, with the builder's schema, and returns what that processor's
\* process produced, a ProcessedData or a failure value, unchanged; N calls
\* build N processors, no two calls use the same processor, and all get the
\* same schema.
C22_ProcessBuildsOneProcessorPerCall ==
    /\ Cardinality(BuiltByProcess) = Len(bCalls)
    /\ \A k \in 1..Len(bCalls) :
          /\ bCalls[k].processor \in BuiltByProcess
          /\ bProcessors[bCalls[k].processor].metrics_config = bBuilder.metrics_config
          /\ bCalls[k].returned = bCalls[k].produced
    /\ \A k, l \in 1..Len(bCalls) :
          bCalls[k].processor = bCalls[l].processor => k = l
    /\ \A i, j \in 1..Len(bProcessors) :
          bProcessors[i].metrics_config = bProcessors[j].metrics_config

\* C22 witness: process was called twice on a builder with a custom schema;
\* the first call returned a ProcessedData and the second a failure value,
\* each from a processor of its own.
C22_Witness ==
    /\ bArg = Some({"cash", "current_assets"})
    /\ Len(bCalls) = 2
    /\ bCalls[1].processor # bCalls[2].processor
    /\ bCalls[1].returned =
          ProcessedData(2, [n \in {"cash", "current_assets"} |->
                               MetricValues(Some("100"), Some(""))], 1, None)
    /\ bCalls[2].returned = Exception("")

-----------------------------------------------------------------------------
(* Claims about the repository, checked under SpecRepo *)

\* C9: in every state of the repository, whatever ProcessedData the saves were
\* given, no stored record has both an error that is not absent and a metric
\* row: get never returns an error together with a non-empty metrics mapping.
C9_ErrorExcludesMetrics ==
    \A id \in RepoIds :
        LET key == UuidStr(id)
        IN  key \in DOMAIN processed_reports =>
              (processed_reports[key].error # None =>
                  /\ MetricsOf(Db, key) = <<>>
                  /\ Get(Db, id).data = EmptyDict)

\* C9 witness: a report saved with metrics was saved again under the same id
\* with an error and with metrics in its data, and no row is left.
C9_Witness ==
    /\ saveCount = 2
    /\ savedPrev.report_id = savedLast.report_id
    /\ savedPrev.error = None
    /\ savedPrev.data # EmptyDict
    /\ savedLast.error # None
    /\ savedLast.data # EmptyDict
    /\ MetricsOf(Db, UuidStr(savedLast.report_id)) = <<>>

\* what the Report invariant makes of a ProcessedData: a failed report has no
\* metrics
IsReport(processed_report) ==
    processed_report.error # None => processed_report.data = EmptyDict

\* C10: after save(r1) and then save(r2) of two reports with the same id,
\* get(id) returns r2's metrics, processed_at and error, the id has one row
\* per name of r2 and none for any other name; also from success to failure
\* and from failure to success.
C10_UpsertOverwrites ==
    (/\ saveCount >= 2
     /\ savedPrev.report_id = savedLast.report_id
     /\ IsReport(savedLast)) =>
        LET id   == savedLast.report_id
            rows == MetricsOf(Db, UuidStr(id))
        IN  /\ Get(Db, id) = savedLast
            /\ Len(rows) = Cardinality(DOMAIN savedLast.data)
            /\ \A i, j \in 1..Len(rows) : rows[i].name = rows[j].name => i = j
            /\ \A i \in 1..Len(rows) : rows[i].name \in DOMAIN savedLast.data

\* C10 witness: r1 was a success with a metric that r2, a success with another
\* instant, does not have.
C10_Witness ==
    /\ saveCount >= 2
    /\ savedPrev.report_id = savedLast.report_id
    /\ savedPrev.error = None
    /\ savedLast.error = None
    /\ savedLast.data # EmptyDict
    /\ savedPrev.processed_at # savedLast.processed_at
    /\ \E n \in DOMAIN savedPrev.data : n \notin DOMAIN savedLast.data
    /\ Get(Db, savedLast.report_id).data = savedLast.data

\* C11: after save(r) of a report r (once, or twice in a row with the identical
\* r), get(r.id) returns r's id, r's error and r's metrics: the same names, and
\* for each name a current and a previous that are absent exactly where r's are
\* absent and the empty string exactly where r's are the empty string.
C11_SaveRoundTrip ==
    (saveCount >= 1 /\ IsReport(savedLast)) =>
        LET got == Get(Db, savedLast.report_id)
        IN  /\ got # None
            /\ got.report_id = savedLast.report_id
            /\ got.error = savedLast.error
            /\ DOMAIN got.data = DOMAIN savedLast.data
            /\ \A n \in DOMAIN savedLast.data :
                  /\ got.data[n].current = savedLast.data[n].current
                  /\ got.data[n].previous = savedLast.data[n].previous

\* C11 witness: the identical report was saved twice in a row; it has a metric
\* whose current is absent and whose previous is the empty string, and get
\* returns them as absent and as the empty string.
C11_Witness ==
    /\ saveCount = 2
    /\ savedPrev = savedLast
    /\ savedLast.error = None
    /\ \E n \in DOMAIN savedLast.data :
          /\ savedLast.data[n] = MetricValues(None, Some(""))
          /\ Get(Db, savedLast.report_id).data[n].current = None
          /\ Get(Db, savedLast.report_id).data[n].previous = Some("")

-----------------------------------------------------------------------------
(* Claims about concurrent calls of the repository, checked under SpecConc *)

\* the save of caller c commits in this step
Commits(c) == sessions[c].pc = "flush" /\ sessions'[c].pc = "done"

\* C18: a save changes the record of its own id only: in every step, with
\* saves for the same and for different ids in any interleaving, what get(j)
\* returns changes only if a save of a report with id j commits in the step.
C18_SaveChangesOnlyItsId ==
    [][\A j \in RepoIds :
          Get(Db, j)' # Get(Db, j) =>
              \E c \in Savers : Commits(c) /\ sessions[c].arg.report_id = j]_vars

\* C18 witness: save1 has committed a report while save2, for the other id,
\* is inside its transaction, and get of that other id still returns the
\* report saved before.
C18_Witness ==
    /\ saveCount = 1
    /\ sessions["save1"].pc = "done"
    /\ sessions["save2"].pc = "flush"
    /\ sessions["save1"].arg.report_id # sessions["save2"].arg.report_id
    /\ sessions["save2"].arg.report_id = savedLast.report_id
    /\ sessions["save2"].session.found
    /\ Get(Db, sessions["save1"].arg.report_id) = sessions["save1"].arg
    /\ Get(Db, savedLast.report_id) = savedLast

\* the reports callers have given to save so far
Given == {savedLast} \cup {sessions[c].arg : c \in {d \in Savers : sessions[d].pc # "idle"}}

\* C19: with one save at a time, a get that runs concurrently with it returns
\* a whole report: the one stored before or the one the save stores, never
\* the report row of one with the metric rows of the other.
C19_GetReturnsWholeReport ==
    \A g \in Getters :
        (/\ sessions[g].pc = "done"
         /\ sessions[g].result # None
         /\ \E c \in Savers : sessions[c].pc = "idle") =>
            sessions[g].result \in Given

\* C20: once two concurrent saves of reports with the same id have both
\* ended, the metric rows of the id are exactly those of one of the two
\* reports: one row per name of that report and no other row.
C20_ConcurrentSavesKeepOneReport ==
    (/\ \A c \in Savers : sessions[c].pc \in {"done", "raised"}
     /\ sessions["save1"].arg.report_id = sessions["save2"].arg.report_id) =>
        LET id   == sessions["save1"].arg.report_id
            rows == MetricsOf(Db, UuidStr(id))
        IN  \E c \in Savers :
                /\ Len(rows) = Cardinality(DOMAIN sessions[c].arg.data)
                /\ \A i \in 1..Len(rows) : rows[i].name \in DOMAIN sessions[c].arg.data
                /\ Get(Db, id).data = sessions[c].arg.data

====
